---- MODULE Spec2Model ----
(***************************************************************************)
(* Droply: the files table and the four route handlers that read and write *)
(* it (credential issuance, upload recording, folder creation, listing).   *)
(*                                                                         *)
(* A handler runs as one atomic step per access to the store: everything a *)
(* handler does between two store accesses (auth(), request.json(), the    *)
(* checks on the body) touches request-local data only, so it is folded    *)
(* into the step of the store access that follows it.  Folder creation is  *)
(* the one handler with two store accesses (the parent select, then the    *)
(* insert) and is two steps, so that other requests interleave between     *)
(* them; req holds the requests that are between the two.  resp is the     *)
(* response of the step just taken; the step after it delivers it.  The    *)
(* columns path, thumbnailUrl, createdAt and updatedAt are written once    *)
(* and read by no handler; they are left out of the rows.                  *)
(***************************************************************************)
EXTENDS Integers, Sequences, FiniteSets, TLC

VARIABLES store, nextId, req, resp, form, wire

vars == <<store, nextId, req, resp, form, wire>>

\* The state of the upload form in the browser, and its requests under way.
client == <<form, wire>>

\* Bound on the number of rows of the files table (and of generated uuids).
MaxNodes == 2

\* The slots of folder creations in flight: two at the same time.
Reqs == {1, 2}

(***************************************************************************)
(* JavaScript values.  A string is a sequence of tokens; the token " " is  *)
(* a whitespace character, every other token is non-whitespace text.  The  *)
(* tag "uuid" is a string in uuid syntax, the n-th uuid.                   *)
(***************************************************************************)
Undefined == [t |-> "undefined", s |-> <<>>, n |-> 0]
JsNull == [t |-> "null", s |-> <<>>, n |-> 0]
Str(s) == [t |-> "string", s |-> s, n |-> 0]
Num(n) == [t |-> "number", s |-> <<>>, n |-> n]
Uuid(k) == [t |-> "uuid", s |-> <<>>, n |-> k]

\* JavaScript truthiness ( !v is ~Truthy(v) ).
Truthy(v) ==
  CASE v.t = "undefined" -> FALSE
    [] v.t = "null" -> FALSE
    [] v.t = "number" -> v.n # 0
    [] v.t = "string" -> v.s # <<>>
    [] OTHER -> TRUE

\* typeof v === "string"
TypeofString(v) == v.t \in {"string", "uuid"}

\* v1 || v2
JsOr(v1, v2) == IF Truthy(v1) THEN v1 ELSE v2

RECURSIVE TrimStart(_)
TrimStart(s) ==
  IF s # <<>> /\ Head(s) = " " THEN TrimStart(Tail(s)) ELSE s

RECURSIVE TrimEnd(_)
TrimEnd(s) ==
  IF s # <<>> /\ s[Len(s)] = " " THEN TrimEnd(SubSeq(s, 1, Len(s) - 1)) ELSE s

\* String.prototype.trim
Trim(s) == TrimEnd(TrimStart(s))

(***************************************************************************)
(* The files table.                                                        *)
(***************************************************************************)
\* SQL NULL in the uuid column parent_id.
NullId == 0

\* A row of the table.
Node(id, name, size, type, fileUrl, userId, parentId, isFolder) ==
  [id |-> id, name |-> name, size |-> size, type |-> type, fileUrl |-> fileUrl,
   userId |-> userId, parentId |-> parentId, isFolder |-> isFolder,
   isStarred |-> FALSE, isTrash |-> FALSE]

\* The absence of a row in a response.
NoNode == Node(NullId, <<>>, 0, <<>>, <<>>, <<>>, NullId, FALSE)

\* A value bound to a uuid column or compared with one: Postgres rejects the
\* statement unless it is NULL or a string in uuid syntax.
UuidParamOk(v) == v.t \in {"null", "uuid"}

\* The column value of a parameter of a uuid column.
ToUuid(v) == IF v.t = "uuid" THEN v.n ELSE NullId

\* eq(column, value): SQL equality, never true of NULL.
SqlEq(a, b) == a # NullId /\ b # NullId /\ a = b

\* isNull(column)
SqlIsNull(a) == a = NullId

\* The id of a row that was in the table before the first request: a uuid
\* that is none of the generated ones.
SeedId == MaxNodes + 2

(***************************************************************************)
(* Callers and request inputs.                                             *)
(***************************************************************************)
UserA == Str(<<"A">>)
UserB == Str(<<"B">>)
Users == {UserA, UserB}

\* What auth() resolves to: a user id, or null when there is no session.
Sessions == Users \cup {JsNull}

\* The name field of a folder-creation body.
NameValues ==
  {Undefined, Num(5), Str(<<>>), Str(<<" ", " ">>), Str(<<" ", "a", " ">>)}

\* The parentId field of a body, or the parentId query parameter.
ParentIdValues ==
  {Undefined, JsNull, Str(<<>>), Str(<<"x">>)}
  \cup {Uuid(k) : k \in 1..MaxNodes} \cup {Uuid(SeedId)}

\* The imagekit field of an upload body; present = FALSE is a missing object.
Imagekit(present, url, name, size, fileType) ==
  [present |-> present, url |-> url, name |-> name, size |-> size,
   fileType |-> fileType]

NoImagekit == Imagekit(FALSE, Undefined, Undefined, Undefined, Undefined)

ImagekitValues ==
  {NoImagekit,
   Imagekit(TRUE, Undefined, Str(<<"x">>), Num(7), Str(<<"image/png">>)),
   Imagekit(TRUE, Str(<<>>), Str(<<"x">>), Num(7), Str(<<"image/png">>)),
   Imagekit(TRUE, Str(<<"h">>), Str(<<"x">>), Num(7), Str(<<"image/png">>)),
   Imagekit(TRUE, Str(<<"h">>), Undefined, Undefined, Undefined),
   Imagekit(TRUE, Str(<<"h">>), Str(<<" ">>), Num(-1), Str(<<"folder">>))}

\* A parsed request body (or the query parameters of a GET); ok = FALSE is a
\* body request.json() cannot parse.
Body(ok, userId, name, parentId, imagekit) ==
  [ok |-> ok, userId |-> userId, name |-> name, parentId |-> parentId,
   imagekit |-> imagekit]

\* A body that was not read.
NoBody == Body(TRUE, Undefined, Undefined, Undefined, NoImagekit)

BadBody == Body(FALSE, Undefined, Undefined, Undefined, NoImagekit)

FolderBodies ==
  {Body(TRUE, u, nm, p, NoImagekit) :
     u \in Users \cup {Undefined}, nm \in NameValues, p \in ParentIdValues}
  \cup {BadBody}

\* A body of the upload form carries a parentId field, which the handler
\* does not read.
UploadBodies ==
  {Body(TRUE, u, Undefined, Undefined, ik) :
     u \in Users \cup {Undefined}, ik \in ImagekitValues}
  \cup {Body(TRUE, u, Undefined, Uuid(1), ik) :
     u \in Users, ik \in {k \in ImagekitValues : k.present /\ Truthy(k.url)}}
  \cup {BadBody}

\* searchParams.get gives a string or null.
ListQueries ==
  {Body(TRUE, u, Undefined, p, NoImagekit) :
     u \in Users \cup {JsNull, Str(<<>>)}, p \in ParentIdValues \ {Undefined}}

(***************************************************************************)
(* Responses, and the folder creations in flight.  bodyRead, queried and   *)
(* inserted record what the handler did before it answered: whether it     *)
(* read the body or the query, whether it ran a select, whether it         *)
(* inserted a row.                                                         *)
(***************************************************************************)
Response(kind, sess, status, rows, node, token, bodyRead, queried, inserted) ==
  [kind |-> kind, sess |-> sess, status |-> status, rows |-> rows,
   node |-> node, token |-> token, bodyRead |-> bodyRead, queried |-> queried,
   inserted |-> inserted]

\* No response is being delivered.
NoResp == Response("none", JsNull, 0, {}, NoNode, FALSE, FALSE, FALSE, FALSE)

\* NextResponse.json({ error }, { status })
ErrorReply(kind, sess, status, bodyRead, queried) ==
  Response(kind, sess, status, {}, NoNode, FALSE, bodyRead, queried, FALSE)

\* The locals of a folder creation between its parent check and its insert.
Slot(pc, userId, name, parentId, queried) ==
  [pc |-> pc, userId |-> userId, name |-> name, parentId |-> parentId,
   queried |-> queried]

IdleSlot == Slot("idle", JsNull, Undefined, JsNull, FALSE)

(***************************************************************************)
(* The upload form (FileUploadForm), a component in the browser.  form is  *)
(* its props and its useState variables; wire is what is outside it: the   *)
(* requests of handleUpload and handleCreateFolder that are under way,     *)
(* and, of the handler that ran last, its name, the request it sent and    *)
(* the number of times it called onUploadSuccess.                          *)
(***************************************************************************)
\* Bound on the requests of one kind that are under way at the same time.
MaxInFlight == 2

\* The size limit of handleFileChange and handleDrop, in bytes.
MaxFileSize == 5 * 1024 * 1024

\* A File object, and null.
File(size) == [present |-> TRUE, size |-> size]
NoFile == [present |-> FALSE, size |-> 0]

\* The files a user selects or drops.
Files == {File(1), File(MaxFileSize), File(MaxFileSize + 1)}

\* What a user types as folder name.
FolderNameInputs == {<<>>, <<" ">>, <<"a">>, <<" ", "a", " ">>}

\* The currentFolder prop: null at the root, else the id of a folder.
CurrentFolders == {JsNull, Uuid(1)}

SizeError == Str(<<"File size exceeds 5MB limit">>)
UploadError == Str(<<"Failed to upload file. Please try again.">>)

\* The component when it is mounted.
Form(userId, currentFolder) ==
  [userId |-> userId, currentFolder |-> currentFolder,
   file |-> NoFile, uploading |-> FALSE, progress |-> 0, error |-> JsNull,
   folderModalOpen |-> FALSE, folderName |-> <<>>, creatingFolder |-> FALSE]

InitialForm == Form(UserA, JsNull)

\* A request of the form: axios.post(url, data).
Request(url, name, userId, parentId, file) ==
  [url |-> url, name |-> name, userId |-> userId, parentId |-> parentId,
   file |-> file]

NoRequest == Request(<<>>, Undefined, Undefined, Undefined, NoFile)

Wire(uploads, creates, last, sent, calls) ==
  [uploads |-> uploads, creates |-> creates, last |-> last, sent |-> sent,
   calls |-> calls]

NoWire == Wire(0, 0, "none", NoRequest, 0)

Init ==
  /\ store = {}
  /\ nextId = 1
  /\ req = [r \in Reqs |-> IdleSlot]
  /\ resp = NoResp
  /\ form = InitialForm
  /\ wire = NoWire

\* A table in which caller A has created a root folder earlier.
SeedFolder ==
  Node(SeedId, <<"p">>, 0, <<"folder">>, <<>>, <<"A">>, NullId, TRUE)

InitSiblings ==
  /\ store = {SeedFolder}
  /\ nextId = 1
  /\ req = [r \in Reqs |-> IdleSlot]
  /\ resp = NoResp
  /\ form = InitialForm
  /\ wire = NoWire

\* The body or query a handler is run on: it is read only with a session.
InputsOf(sess, bodies) == IF Truthy(sess) THEN bodies ELSE {NoBody}

(***************************************************************************)
(* GET /api/imagekit-auth: the upload-credential issuer.                   *)
(***************************************************************************)
\* ImagekitAuthReply without the session check.
ImagekitAuthReplyNoCheck(sess) ==
  Response("imagekit-auth", sess, 200, {}, NoNode, TRUE, FALSE, FALSE, FALSE)

ImagekitAuthReply(sess) ==
  LET userId == sess
  IN  IF ~Truthy(userId)
      THEN ErrorReply("imagekit-auth", sess, 401, FALSE, FALSE)
      ELSE Response("imagekit-auth", sess, 200, {}, NoNode, TRUE, FALSE, FALSE, FALSE)

ImagekitAuthGET ==
  /\ resp = NoResp
  /\ \E sess \in Sessions : resp' = ImagekitAuthReply(sess)
  /\ UNCHANGED <<store, nextId, req>>
  /\ UNCHANGED client

(***************************************************************************)
(* GET /api/files: the directory lister.                                   *)
(***************************************************************************)
\* userFiles without eq(files.userId, userId) in the select of a folder.
userFilesAnyOwner(st, userId, parentId) ==
  IF Truthy(parentId)
  THEN {n \in st : SqlEq(n.parentId, ToUuid(parentId))}
  ELSE {n \in st : n.userId = userId.s /\ SqlIsNull(n.parentId)}

\* userFiles with the parent id compared with files.id.
userFilesById(st, userId, parentId) ==
  IF Truthy(parentId)
  THEN {n \in st : n.userId = userId.s /\ SqlEq(n.id, ToUuid(parentId))}
  ELSE {n \in st : n.userId = userId.s /\ SqlIsNull(n.parentId)}

\* userFiles with eq(files.parentId, null) in place of isNull(files.parentId).
userFilesEqNull(st, userId, parentId) ==
  IF Truthy(parentId)
  THEN {n \in st : n.userId = userId.s /\ SqlEq(n.parentId, ToUuid(parentId))}
  ELSE {n \in st : n.userId = userId.s /\ SqlEq(n.parentId, NullId)}

\* The two selects of the handler, over the table st.
userFiles(st, userId, parentId) ==
  IF Truthy(parentId)
  THEN {n \in st : n.userId = userId.s /\ SqlEq(n.parentId, ToUuid(parentId))}
  ELSE {n \in st : n.userId = userId.s /\ SqlIsNull(n.parentId)}

\* QueryMismatch without the comparison with the session's user id.
QueryMismatchMissingOnly(queryUserId, userId) == ~Truthy(queryUserId)

\* The identity check of the handler.
QueryMismatch(queryUserId, userId) ==
  ~Truthy(queryUserId) \/ queryUserId # userId

\* FilesReply with an empty result answered as not found.
FilesReplyEmptyIs404(st, sess, query) ==
  LET userId == sess
      queryUserId == query.userId
      parentId == query.parentId
  IN  IF ~Truthy(userId)
      THEN ErrorReply("files", sess, 401, FALSE, FALSE)
      ELSE IF QueryMismatch(queryUserId, userId)
      THEN ErrorReply("files", sess, 401, TRUE, FALSE)
      ELSE IF Truthy(parentId) /\ ~UuidParamOk(parentId)
      THEN ErrorReply("files", sess, 500, TRUE, TRUE)
      ELSE IF userFiles(st, userId, parentId) = {}
      THEN ErrorReply("files", sess, 404, TRUE, TRUE)
      ELSE Response("files", sess, 200, userFiles(st, userId, parentId), NoNode,
                    FALSE, TRUE, TRUE, FALSE)

FilesReply(st, sess, query) ==
  LET userId == sess
      queryUserId == query.userId
      parentId == query.parentId
  IN  IF ~Truthy(userId)
      THEN ErrorReply("files", sess, 401, FALSE, FALSE)
      ELSE IF QueryMismatch(queryUserId, userId)
      THEN ErrorReply("files", sess, 401, TRUE, FALSE)
      ELSE IF Truthy(parentId) /\ ~UuidParamOk(parentId)
      THEN ErrorReply("files", sess, 500, TRUE, TRUE)
      ELSE Response("files", sess, 200, userFiles(st, userId, parentId), NoNode,
                    FALSE, TRUE, TRUE, FALSE)

FilesGET ==
  /\ resp = NoResp
  /\ \E sess \in Sessions : \E query \in InputsOf(sess, ListQueries) :
       resp' = FilesReply(store, sess, query)
  /\ UNCHANGED <<store, nextId, req>>
  /\ UNCHANGED client

(***************************************************************************)
(* db.insert(files).values(data).returning()                               *)
(***************************************************************************)
\* Postgres accepts the row: the text columns hold strings, size an integer,
\* parent_id NULL or a uuid.
InsertOk(data) ==
  /\ TypeofString(data.name)
  /\ data.size.t = "number"
  /\ TypeofString(data.type)
  /\ TypeofString(data.fileUrl)
  /\ UuidParamOk(data.parentId)

\* InsertedRow with one id for every row.
InsertedRowSameId(id, data) ==
  Node(1, data.name.s, data.size.n, data.type.s, data.fileUrl.s, data.userId.s,
       ToUuid(data.parentId), data.isFolder)

\* The row the insert stores and returns, with the generated id.
InsertedRow(id, data) ==
  Node(id, data.name.s, data.size.n, data.type.s, data.fileUrl.s, data.userId.s,
       ToUuid(data.parentId), data.isFolder)

\* What a handler run leaves: its response (or none yet) and the table.
Outcome(response, st) == [resp |-> response, store |-> st]

\* InsertOutcome with an insert that replaces the rows of the table.
InsertOutcomeReplace(kind, st, id, sess, data, queried) ==
  IF ~InsertOk(data)
  THEN Outcome(ErrorReply(kind, sess, 500, TRUE, queried), st)
  ELSE Outcome(Response(kind, sess, 200, {}, InsertedRow(id, data), FALSE, TRUE,
                        queried, TRUE),
               {InsertedRow(id, data)})

\* InsertOutcome with a failure answered after the row was inserted.
InsertOutcomeThenFail(kind, st, id, sess, data, queried) ==
  IF ~InsertOk(data)
  THEN Outcome(ErrorReply(kind, sess, 500, TRUE, queried), st)
  ELSE Outcome(ErrorReply(kind, sess, 500, TRUE, queried),
               st \cup {InsertedRow(id, data)})

\* The insert of data into st with generated id, and the response after it.
InsertOutcome(kind, st, id, sess, data, queried) ==
  IF ~InsertOk(data)
  THEN Outcome(ErrorReply(kind, sess, 500, TRUE, queried), st)
  ELSE Outcome(Response(kind, sess, 200, {}, InsertedRow(id, data), FALSE, TRUE,
                        queried, TRUE),
               st \cup {InsertedRow(id, data)})

(***************************************************************************)
(* POST /api/upload: the upload-completion recorder.                       *)
(***************************************************************************)
\* ImagekitInvalid without the test of imagekit.url.
ImagekitInvalidMissingOnly(imagekit) == ~imagekit.present

\* The validation of the ImageKit response.
ImagekitInvalid(imagekit) == ~imagekit.present \/ ~Truthy(imagekit.url)

\* fileData with the file name stored as the file's url.
fileDataNameAsUrl(userId, imagekit) ==
  [name |-> JsOr(imagekit.name, Str(<<"Untitled">>)),
   size |-> JsOr(imagekit.size, Num(0)),
   type |-> JsOr(imagekit.fileType, Str(<<"image">>)),
   fileUrl |-> imagekit.name,
   userId |-> userId,
   parentId |-> JsNull,
   isFolder |-> FALSE]

fileData(userId, imagekit) ==
  [name |-> JsOr(imagekit.name, Str(<<"Untitled">>)),
   size |-> JsOr(imagekit.size, Num(0)),
   type |-> JsOr(imagekit.fileType, Str(<<"image">>)),
   fileUrl |-> imagekit.url,
   userId |-> userId,
   parentId |-> JsNull,
   isFolder |-> FALSE]

\* The whole handler, run on the table st with id the next generated uuid.
UploadOutcome(st, id, sess, body) ==
  LET userId == sess
      bodyUserId == body.userId
      imagekit == body.imagekit
  IN  IF ~Truthy(userId)
      THEN Outcome(ErrorReply("upload", sess, 401, FALSE, FALSE), st)
      ELSE IF ~body.ok
      THEN Outcome(ErrorReply("upload", sess, 500, TRUE, FALSE), st)
      ELSE IF bodyUserId # userId
      THEN Outcome(ErrorReply("upload", sess, 401, TRUE, FALSE), st)
      ELSE IF ImagekitInvalid(imagekit)
      THEN Outcome(ErrorReply("upload", sess, 400, TRUE, FALSE), st)
      ELSE InsertOutcome("upload", st, id, sess, fileData(userId, imagekit), FALSE)

UploadPOST ==
  /\ resp = NoResp
  /\ \E sess \in Sessions : \E body \in InputsOf(sess, UploadBodies) :
       LET out == UploadOutcome(store, nextId, sess, body)
       IN  /\ out.resp.inserted => nextId <= MaxNodes
           /\ resp' = out.resp
           /\ store' = out.store
           /\ nextId' = IF out.resp.inserted THEN nextId + 1 ELSE nextId
  /\ UNCHANGED req
  /\ UNCHANGED client

(***************************************************************************)
(* POST /api/folders/create: the folder creator.                           *)
(***************************************************************************)
\* const { parentId = null } = body
DefaultParentId(body) ==
  IF body.parentId = Undefined THEN JsNull ELSE body.parentId

\* NameInvalid without the test of the trimmed name.
NameInvalidNoTrim(name) == ~Truthy(name) \/ ~TypeofString(name)

\* The validation of the folder name.
NameInvalid(name) ==
  ~Truthy(name) \/ ~TypeofString(name) \/ Trim(name.s) = <<>>

\* parentFolder by id alone.
parentFolderById(st, parentId, userId) ==
  {n \in st : SqlEq(n.id, ToUuid(parentId))}

\* parentFolder without eq(files.userId, userId).
parentFolderAnyOwner(st, parentId, userId) ==
  {n \in st : SqlEq(n.id, ToUuid(parentId)) /\ n.isFolder = TRUE}

\* parentFolder without eq(files.isFolder, true).
parentFolderAnyKind(st, parentId, userId) ==
  {n \in st : SqlEq(n.id, ToUuid(parentId)) /\ n.userId = userId.s}

\* parentFolder with a row found whatever the table holds.
parentFolderUnchecked(st, parentId, userId) == {NoNode}

\* The select of the parent folder, over the table st.
parentFolder(st, parentId, userId) ==
  {n \in st : /\ SqlEq(n.id, ToUuid(parentId))
              /\ n.userId = userId.s
              /\ n.isFolder = TRUE}

\* folderData with the name as sent, not trimmed.
folderDataRawName(userId, name, parentId) ==
  [name |-> name,
   size |-> Num(0),
   type |-> Str(<<"folder">>),
   fileUrl |-> Str(<<>>),
   userId |-> userId,
   parentId |-> parentId,
   isFolder |-> TRUE]

\* folderData with the folder's name as its fileUrl.
folderDataWithUrl(userId, name, parentId) ==
  [name |-> Str(Trim(name.s)),
   size |-> Num(0),
   type |-> Str(<<"folder">>),
   fileUrl |-> Str(Trim(name.s)),
   userId |-> userId,
   parentId |-> parentId,
   isFolder |-> TRUE]

folderData(userId, name, parentId) ==
  [name |-> Str(Trim(name.s)),
   size |-> Num(0),
   type |-> Str(<<"folder">>),
   fileUrl |-> Str(<<>>),
   userId |-> userId,
   parentId |-> parentId,
   isFolder |-> TRUE]

\* FolderGate with the name validated before the identity check.
FolderGateNameFirst(st, sess, body) ==
  LET userId == sess
      name == body.name
      bodyUserId == body.userId
      parentId == DefaultParentId(body)
      reply(status, bodyRead, queried) ==
        [resp |-> ErrorReply("folder", sess, status, bodyRead, queried),
         slot |-> IdleSlot]
  IN  IF ~Truthy(userId)
      THEN reply(401, FALSE, FALSE)
      ELSE IF ~body.ok
      THEN reply(500, TRUE, FALSE)
      ELSE IF NameInvalid(name)
      THEN reply(400, TRUE, FALSE)
      ELSE IF bodyUserId # userId
      THEN reply(401, TRUE, FALSE)
      ELSE IF Truthy(parentId) /\ ~UuidParamOk(parentId)
      THEN reply(500, TRUE, TRUE)
      ELSE IF Truthy(parentId) /\ parentFolder(st, parentId, userId) = {}
      THEN reply(404, TRUE, TRUE)
      ELSE [resp |-> NoResp,
            slot |-> Slot("insert", userId, name, parentId, Truthy(parentId))]

\* The handler from its entry to the end of the parent check, on the table
\* st: its response, or no response yet and the locals it goes on with.
FolderGate(st, sess, body) ==
  LET userId == sess
      name == body.name
      bodyUserId == body.userId
      parentId == DefaultParentId(body)
      reply(status, bodyRead, queried) ==
        [resp |-> ErrorReply("folder", sess, status, bodyRead, queried),
         slot |-> IdleSlot]
  IN  IF ~Truthy(userId)
      THEN reply(401, FALSE, FALSE)
      ELSE IF ~body.ok
      THEN reply(500, TRUE, FALSE)
      ELSE IF bodyUserId # userId
      THEN reply(401, TRUE, FALSE)
      ELSE IF NameInvalid(name)
      THEN reply(400, TRUE, FALSE)
      ELSE IF Truthy(parentId) /\ ~UuidParamOk(parentId)
      THEN reply(500, TRUE, TRUE)
      ELSE IF Truthy(parentId) /\ parentFolder(st, parentId, userId) = {}
      THEN reply(404, TRUE, TRUE)
      ELSE [resp |-> NoResp,
            slot |-> Slot("insert", userId, name, parentId, Truthy(parentId))]

\* The handler from the folder record to its response.
FolderInsertOutcome(st, id, slot) ==
  InsertOutcome("folder", st, id, slot.userId,
                folderData(slot.userId, slot.name, slot.parentId), slot.queried)

\* The whole handler when no other request runs between its two steps.
FolderOutcome(st, id, sess, body) ==
  LET gate == FolderGate(st, sess, body)
  IN  IF gate.slot.pc = "idle"
      THEN Outcome(gate.resp, st)
      ELSE FolderInsertOutcome(st, id, gate.slot)

\* A new request takes the first free slot.
FirstIdle(r) ==
  /\ req[r].pc = "idle"
  /\ \A q \in Reqs : req[q].pc = "idle" => ~(q < r)

FoldersCreatePOST(r) ==
  /\ resp = NoResp
  /\ FirstIdle(r)
  /\ \E sess \in Sessions : \E body \in InputsOf(sess, FolderBodies) :
       LET gate == FolderGate(store, sess, body)
       IN  /\ resp' = gate.resp
           /\ req' = [req EXCEPT ![r] = gate.slot]
  /\ UNCHANGED <<store, nextId>>
  /\ UNCHANGED client

FoldersCreateInsert(r) ==
  /\ resp = NoResp
  /\ req[r].pc = "insert"
  /\ LET out == FolderInsertOutcome(store, nextId, req[r])
     IN  /\ out.resp.inserted => nextId <= MaxNodes
         /\ resp' = out.resp
         /\ store' = out.store
         /\ nextId' = IF out.resp.inserted THEN nextId + 1 ELSE nextId
  /\ req' = [req EXCEPT ![r] = IdleSlot]
  /\ UNCHANGED client

(***************************************************************************)
(* The response reaches the caller.                                        *)
(***************************************************************************)
Deliver ==
  /\ resp # NoResp
  /\ resp' = NoResp
  /\ UNCHANGED <<store, nextId, req>>
  /\ UNCHANGED client

Next ==
  \/ ImagekitAuthGET
  \/ FilesGET
  \/ UploadPOST
  \/ \E r \in Reqs : FoldersCreatePOST(r)
  \/ \E r \in Reqs : FoldersCreateInsert(r)
  \/ Deliver

Spec == Init /\ [][Next]_vars

\* The same requests on a table that holds a folder already.
SpecSiblings == InitSiblings /\ [][Next]_vars

(***************************************************************************)
(* Exceptions.  Every handler body is one try block whose catch answers    *)
(* 500.  fault names the call that throws in a run of a handler: auth(),   *)
(* a select, an insert, or imagekit.getAuthenticationParameters(); it      *)
(* takes effect when the run gets to that call.  (A body request.json()    *)
(* cannot parse is the body BadBody.)  A statement that throws has written *)
(* nothing.                                                                *)
(***************************************************************************)
\* The calls of each handler that can throw.
ImagekitAuthFaults == {"auth", "sdk"}
FilesFaults == {"auth", "select"}
UploadFaults == {"auth", "insert"}
FolderGateFaults == {"auth", "select"}
FolderInsertFaults == {"insert"}

\* The body or query of a run in which fault is the call that throws: when
\* auth() throws it is not read.
FaultInputs(sess, fault, bodies) ==
  IF fault = "auth" THEN {NoBody} ELSE InputsOf(sess, bodies)

ImagekitAuthThrows(sess, fault) ==
  \/ fault = "auth"
  \/ fault = "sdk" /\ Truthy(sess)

ImagekitAuthCatch(sess, fault) ==
  IF ImagekitAuthThrows(sess, fault)
  THEN ErrorReply("imagekit-auth", sess, 500, FALSE, FALSE)
  ELSE ImagekitAuthReply(sess)

FilesThrows(st, sess, query, fault) ==
  \/ fault = "auth"
  \/ fault = "select" /\ FilesReply(st, sess, query).queried

FilesCatch(st, sess, query, fault) ==
  IF FilesThrows(st, sess, query, fault)
  THEN ErrorReply("files", sess, 500, fault # "auth", fault # "auth")
  ELSE FilesReply(st, sess, query)

UploadThrows(sess, body, fault) ==
  \/ fault = "auth"
  \/ /\ fault = "insert"
     /\ Truthy(sess) /\ body.ok /\ body.userId = sess
     /\ ~ImagekitInvalid(body.imagekit)

\* UploadCatch with an insert that is run again after it threw.
UploadCatchRetry(st, id, sess, body, fault) ==
  IF fault = "auth"
  THEN Outcome(ErrorReply("upload", sess, 500, FALSE, FALSE), st)
  ELSE UploadOutcome(st, id, sess, body)

UploadCatch(st, id, sess, body, fault) ==
  IF UploadThrows(sess, body, fault)
  THEN Outcome(ErrorReply("upload", sess, 500, fault # "auth", FALSE), st)
  ELSE UploadOutcome(st, id, sess, body)

FolderGateThrows(st, sess, body, fault) ==
  \/ fault = "auth"
  \/ /\ fault = "select"
     /\ LET gate == FolderGate(st, sess, body)
        IN  gate.resp.queried \/ gate.slot.queried

FolderGateCatch(st, sess, body, fault) ==
  IF FolderGateThrows(st, sess, body, fault)
  THEN [resp |-> ErrorReply("folder", sess, 500, fault # "auth", fault # "auth"),
        slot |-> IdleSlot]
  ELSE FolderGate(st, sess, body)

FolderInsertThrows(slot, fault) == fault = "insert"

FolderInsertCatch(st, id, slot, fault) ==
  IF FolderInsertThrows(slot, fault)
  THEN Outcome(ErrorReply("folder", slot.userId, 500, TRUE, slot.queried), st)
  ELSE FolderInsertOutcome(st, id, slot)

ImagekitAuthGETThrows ==
  /\ resp = NoResp
  /\ \E sess \in Sessions : \E fault \in ImagekitAuthFaults :
       /\ ImagekitAuthThrows(sess, fault)
       /\ resp' = ImagekitAuthCatch(sess, fault)
  /\ UNCHANGED <<store, nextId, req>>
  /\ UNCHANGED client

FilesGETThrows ==
  /\ resp = NoResp
  /\ \E sess \in Sessions : \E fault \in FilesFaults :
       \E query \in FaultInputs(sess, fault, ListQueries) :
         /\ FilesThrows(store, sess, query, fault)
         /\ resp' = FilesCatch(store, sess, query, fault)
  /\ UNCHANGED <<store, nextId, req>>
  /\ UNCHANGED client

UploadPOSTThrows ==
  /\ resp = NoResp
  /\ \E sess \in Sessions : \E fault \in UploadFaults :
       \E body \in FaultInputs(sess, fault, UploadBodies) :
         /\ UploadThrows(sess, body, fault)
         /\ LET out == UploadCatch(store, nextId, sess, body, fault)
            IN  /\ out.resp.inserted => nextId <= MaxNodes
                /\ resp' = out.resp
                /\ store' = out.store
                /\ nextId' = IF out.resp.inserted THEN nextId + 1 ELSE nextId
  /\ UNCHANGED req
  /\ UNCHANGED client

FoldersCreatePOSTThrows(r) ==
  /\ resp = NoResp
  /\ FirstIdle(r)
  /\ \E sess \in Sessions : \E fault \in FolderGateFaults :
       \E body \in FaultInputs(sess, fault, FolderBodies) :
         /\ FolderGateThrows(store, sess, body, fault)
         /\ LET gate == FolderGateCatch(store, sess, body, fault)
            IN  /\ resp' = gate.resp
                /\ req' = [req EXCEPT ![r] = gate.slot]
  /\ UNCHANGED <<store, nextId>>
  /\ UNCHANGED client

FoldersCreateInsertThrows(r) ==
  /\ resp = NoResp
  /\ req[r].pc = "insert"
  /\ \E fault \in FolderInsertFaults :
       /\ FolderInsertThrows(req[r], fault)
       /\ LET out == FolderInsertCatch(store, nextId, req[r], fault)
          IN  /\ out.resp.inserted => nextId <= MaxNodes
              /\ resp' = out.resp
              /\ store' = out.store
              /\ nextId' = IF out.resp.inserted THEN nextId + 1 ELSE nextId
  /\ req' = [req EXCEPT ![r] = IdleSlot]
  /\ UNCHANGED client

NextFault ==
  \/ Next
  \/ ImagekitAuthGETThrows
  \/ FilesGETThrows
  \/ UploadPOSTThrows
  \/ \E r \in Reqs : FoldersCreatePOSTThrows(r)
  \/ \E r \in Reqs : FoldersCreateInsertThrows(r)

\* The requests with exceptions at any call.
SpecFault == Init /\ [][NextFault]_vars

(***************************************************************************)
(* The middleware.  A pathname is a sequence of tokens: "/" and pieces of  *)
(* text between and after the slashes ("/sign-in/reset" is "/", "sign-in", *)
(* "/", "reset"; "/logo.png" is "/", "logo", ".png").                      *)
(***************************************************************************)
RootPath == <<"/">>
FilesPath == <<"/", "api", "/", "files">>
UploadPath == <<"/", "api", "/", "upload">>
FoldersCreatePath == <<"/", "api", "/", "folders", "/", "create">>
ImagekitAuthPath == <<"/", "api", "/", "imagekit-auth">>

ApiPaths == {FilesPath, UploadPath, FoldersCreatePath, ImagekitAuthPath}

PagePaths ==
  {RootPath,
   <<"/", "sign-in">>, <<"/", "sign-in", "/", "reset">>,
   <<"/", "sign-up">>, <<"/", "sign-up", "x">>,
   <<"/", "dashboard">>, <<"/", "signin">>,
   <<"/", "logo", ".png">>, <<"/", "_next", "/", "chunk">>}

Paths == ApiPaths \cup PagePaths

\* createRouteMatcher(["/", "/sign-in(.*)", "/sign-up(.*)"])
isPublicRoute(path) ==
  \/ path = RootPath
  \/ Len(path) >= 2 /\ path[1] = "/" /\ path[2] \in {"sign-in", "sign-up"}

\* config.matcher: the requests the middleware runs on.
matcher(path) ==
  \/ /\ ~(Len(path) >= 2 /\ path[2] = "_next")
     /\ \A i \in 1..Len(path) : path[i] \notin {".png", ".css", ".js", ".html"}
  \/ Len(path) >= 2 /\ path[2] \in {"api", "trpc"}

\* clerkMiddleware without the test url.pathname !== "/".
clerkMiddlewareRootToo(userId, path) ==
  IF Truthy(userId) /\ isPublicRoute(path)
  THEN "redirect"
  ELSE IF ~isPublicRoute(path) /\ ~Truthy(userId)
  THEN "protect"
  ELSE "next"

\* The callback: "redirect" to /dashboard, "protect" when auth.protect()
\* stops the request (it does when there is no session), else "next".
clerkMiddleware(userId, path) ==
  IF Truthy(userId) /\ isPublicRoute(path) /\ path # RootPath
  THEN "redirect"
  ELSE IF ~isPublicRoute(path) /\ ~Truthy(userId)
  THEN "protect"
  ELSE "next"

\* What becomes of a request before any route is run.
Gate(sess, path) ==
  IF matcher(path) THEN clerkMiddleware(sess, path) ELSE "next"

\* The response of the middleware to a request it does not let through.
GateReply(sess, path) ==
  IF Gate(sess, path) = "redirect"
  THEN Response("redirect", sess, 307, {}, NoNode, FALSE, FALSE, FALSE, FALSE)
  ELSE Response("protect", sess, IF path \in ApiPaths THEN 401 ELSE 307, {},
                NoNode, FALSE, FALSE, FALSE, FALSE)

MiddlewareStops ==
  /\ resp = NoResp
  /\ \E sess \in Sessions : \E path \in Paths :
       /\ Gate(sess, path) # "next"
       /\ resp' = GateReply(sess, path)
  /\ UNCHANGED <<store, nextId, req>>
  /\ UNCHANGED client

\* A page or a static file is served.
PageGET ==
  /\ resp = NoResp
  /\ \E sess \in Sessions : \E path \in PagePaths :
       /\ Gate(sess, path) = "next"
       /\ resp' = Response("page", sess, 200, {}, NoNode, FALSE, FALSE, FALSE, FALSE)
  /\ UNCHANGED <<store, nextId, req>>
  /\ UNCHANGED client

GatedImagekitAuthGET ==
  ImagekitAuthGET /\ Gate(resp'.sess, ImagekitAuthPath) = "next"

GatedFilesGET ==
  FilesGET /\ Gate(resp'.sess, FilesPath) = "next"

GatedUploadPOST ==
  UploadPOST /\ Gate(resp'.sess, UploadPath) = "next"

GatedFoldersCreatePOST(r) ==
  /\ FoldersCreatePOST(r)
  /\ Gate(IF resp' = NoResp THEN req'[r].userId ELSE resp'.sess,
          FoldersCreatePath) = "next"

NextGate ==
  \/ MiddlewareStops
  \/ PageGET
  \/ GatedImagekitAuthGET
  \/ GatedFilesGET
  \/ GatedUploadPOST
  \/ \E r \in Reqs : GatedFoldersCreatePOST(r)
  \/ \E r \in Reqs : FoldersCreateInsert(r)
  \/ Deliver

\* The requests behind the middleware.
SpecGate == Init /\ [][NextGate]_vars

(***************************************************************************)
(* Progress.  A handler is a chain of awaited calls; a call that was       *)
(* started returns and the handler goes on, whatever other requests do.    *)
(* So that the bound on the ids stops no request between its two steps, a  *)
(* request that is to insert is let in only when an id is left for it.     *)
(***************************************************************************)
\* The number of folder creations between their parent check and insert.
Pending == Cardinality({r \in Reqs : req[r].pc = "insert"})

\* An id is left for one more insert.
HasRoom == nextId + Pending <= MaxNodes

LiveUploadPOST ==
  UploadPOST /\ (resp'.inserted => HasRoom)

LiveFoldersCreatePOST(r) ==
  FoldersCreatePOST(r) /\ (req'[r].pc = "insert" => HasRoom)

NextLive ==
  \/ ImagekitAuthGET
  \/ FilesGET
  \/ LiveUploadPOST
  \/ \E r \in Reqs : LiveFoldersCreatePOST(r)
  \/ \E r \in Reqs : FoldersCreateInsert(r)
  \/ Deliver

\* The awaited insert of a request in flight returns; the response of a
\* handler that has returned is sent.
Fairness ==
  /\ \A r \in Reqs : SF_vars(FoldersCreateInsert(r))
  /\ WF_vars(Deliver)

SpecLive == Init /\ [][NextLive]_vars /\ Fairness

(***************************************************************************)
(* The handlers of the upload form.  A handler runs when its control is    *)
(* on the page and can be pressed; handleUpload and handleCreateFolder,    *)
(* whose first statement is a test of the state, are also run in the       *)
(* states in which that test makes them return.                            *)
(***************************************************************************)
InitForm ==
  /\ store = {}
  /\ nextId = 1
  /\ req = [r \in Reqs |-> IdleSlot]
  /\ resp = NoResp
  /\ \E u \in Users : \E c \in CurrentFolders : form = Form(u, c)
  /\ wire = NoWire

server == <<store, nextId, req, resp>>

\* The step of a handler that sends nothing and calls no callback.
Ran(name) == Wire(wire.uploads, wire.creates, name, NoRequest, 0)

\* TooLarge with a limit one byte higher.
TooLargeOffByOne(f) == f.size > MaxFileSize + 1

\* The size test of handleFileChange and handleDrop.
TooLarge(f) == f.size > MaxFileSize

\* The body of handleFileChange and of handleDrop on the file f.
SelectFile(name, f) ==
  /\ form' = IF TooLarge(f)
             THEN [form EXCEPT !.error = SizeError]
             ELSE [form EXCEPT !.file = f, !.error = JsNull]
  /\ wire' = Ran(name)
  /\ UNCHANGED server

\* The file input is on the page while no file is selected.
handleFileChange ==
  /\ ~form.file.present
  /\ \E f \in Files : SelectFile("handleFileChange", f)

handleDrop == \E f \in Files : SelectFile("handleDrop", f)

\* The clear button is on the page while a file is selected.
clearFile ==
  /\ form.file.present
  /\ form' = [form EXCEPT !.file = NoFile, !.error = JsNull]
  /\ wire' = Ran("clearFile")
  /\ UNCHANGED server

\* The upload button is on the page while a file is selected, and
\* isDisabled={!!error}.
UploadDisabled == Truthy(form.error)

\* The FormData of handleUpload.
UploadRequest ==
  Request(<<"/api/files/upload">>, Undefined, form.userId,
          IF Truthy(form.currentFolder) THEN form.currentFolder ELSE Undefined,
          form.file)

\* handleUpload up to its await.
handleUpload ==
  \/ /\ ~form.file.present
     /\ UNCHANGED form
     /\ wire' = Ran("handleUpload")
     /\ UNCHANGED server
  \/ /\ form.file.present
     /\ ~UploadDisabled
     /\ wire.uploads < MaxInFlight
     /\ form' = [form EXCEPT !.uploading = TRUE, !.progress = 0, !.error = JsNull]
     /\ wire' = Wire(wire.uploads + 1, wire.creates, "handleUpload",
                     UploadRequest, 0)
     /\ UNCHANGED server

onUploadProgress ==
  /\ wire.uploads > 0
  /\ \E percentCompleted \in {50, 100} :
       form' = [form EXCEPT !.progress = percentCompleted]
  /\ wire' = Ran("onUploadProgress")
  /\ UNCHANGED server

\* UploadResolved without the finally block.
UploadResolvedNoFinally ==
  /\ wire.uploads > 0
  /\ form' = [form EXCEPT !.file = NoFile, !.error = JsNull]
  /\ wire' = Wire(wire.uploads - 1, wire.creates, "uploadResolved", NoRequest, 1)
  /\ UNCHANGED server

\* handleUpload after its await, when the request succeeded: the try block
\* (clearFile, onUploadSuccess) and the finally block.
UploadResolved ==
  /\ wire.uploads > 0
  /\ form' = [form EXCEPT !.file = NoFile, !.error = JsNull, !.uploading = FALSE]
  /\ wire' = Wire(wire.uploads - 1, wire.creates, "uploadResolved", NoRequest, 1)
  /\ UNCHANGED server

\* handleUpload after its await, when the request failed: the catch block
\* and the finally block.
UploadRejected ==
  /\ wire.uploads > 0
  /\ form' = [form EXCEPT !.error = UploadError, !.uploading = FALSE]
  /\ wire' = Wire(wire.uploads - 1, wire.creates, "uploadRejected", NoRequest, 0)
  /\ UNCHANGED server

setFolderModalOpen ==
  /\ \E open \in BOOLEAN : form' = [form EXCEPT !.folderModalOpen = open]
  /\ wire' = Ran("setFolderModalOpen")
  /\ UNCHANGED server

\* The name input is in the modal.
setFolderName ==
  /\ form.folderModalOpen
  /\ \E value \in FolderNameInputs : form' = [form EXCEPT !.folderName = value]
  /\ wire' = Ran("setFolderName")
  /\ UNCHANGED server

\* CreateRequest with the name as typed.
CreateRequestRawName ==
  Request(<<"/api/folders/create">>, Str(form.folderName), form.userId,
          form.currentFolder, NoFile)

\* The body of the POST of handleCreateFolder.
CreateRequest ==
  Request(<<"/api/folders/create">>, Str(Trim(form.folderName)), form.userId,
          form.currentFolder, NoFile)

\* handleCreateFolder up to its await.  The create button is in the modal,
\* and isDisabled={!folderName.trim()}.
handleCreateFolder ==
  \/ /\ ~Truthy(Str(Trim(form.folderName)))
     /\ UNCHANGED form
     /\ wire' = Ran("handleCreateFolder")
     /\ UNCHANGED server
  \/ /\ Truthy(Str(Trim(form.folderName)))
     /\ form.folderModalOpen
     /\ wire.creates < MaxInFlight
     /\ form' = [form EXCEPT !.creatingFolder = TRUE]
     /\ wire' = Wire(wire.uploads, wire.creates + 1, "handleCreateFolder",
                     CreateRequest, 0)
     /\ UNCHANGED server

\* handleCreateFolder after its await, when the request succeeded.
CreateResolved ==
  /\ wire.creates > 0
  /\ form' = [form EXCEPT !.folderName = <<>>, !.folderModalOpen = FALSE,
                          !.creatingFolder = FALSE]
  /\ wire' = Wire(wire.uploads, wire.creates - 1, "createResolved", NoRequest, 1)
  /\ UNCHANGED server

\* handleCreateFolder after its await, when the request failed.
CreateRejected ==
  /\ wire.creates > 0
  /\ form' = [form EXCEPT !.creatingFolder = FALSE]
  /\ wire' = Wire(wire.uploads, wire.creates - 1, "createRejected", NoRequest, 0)
  /\ UNCHANGED server

NextForm ==
  \/ handleFileChange
  \/ handleDrop
  \/ clearFile
  \/ handleUpload
  \/ onUploadProgress
  \/ UploadResolved
  \/ UploadRejected
  \/ setFolderModalOpen
  \/ setFolderName
  \/ handleCreateFolder
  \/ CreateResolved
  \/ CreateRejected

SpecForm == InitForm /\ [][NextForm]_vars

(***************************************************************************)
(* Inputs of the properties below.                                         *)
(***************************************************************************)
\* The query ?userId=U&parentId=P of the list handler.
Query(userId, parentId) == Body(TRUE, userId, Undefined, parentId, NoImagekit)

\* The parent ids that are ids: strings in uuid syntax.
ParentUuids == {p \in ParentIdValues : p.t = "uuid"}

\* The rows of an owner.
OwnView(st, user) == {n \in st : n.userId = user.s}

\* A name that is missing, not a string, empty or made of whitespace only.
BlankName(v) ==
  \/ v.t \notin {"string", "uuid"}
  \/ v.t = "string" /\ \A i \in 1..Len(v.s) : v.s[i] = " "

\* t is s without its leading and trailing whitespace.
IsTrimOf(t, s) ==
  \E i \in 0..Len(s) : \E j \in i..Len(s) :
    /\ t = SubSeq(s, i + 1, j)
    /\ \A k \in 1..i : s[k] = " "
    /\ \A k \in (j + 1)..Len(s) : s[k] = " "
    /\ t # <<>> => t[1] # " " /\ t[Len(t)] # " "

\* The folder-creation bodies of caller sess under its own identity.
OwnFolderBodies(sess) == {b \in FolderBodies : b.ok /\ b.userId = sess}

\* The upload bodies of caller sess under its own identity.
OwnUploadBodies(sess) == {b \in UploadBodies : b.ok /\ b.userId = sess}

\* A handler can be entered: no response is on its way.
Ready == resp = NoResp

\* A handler can be entered and no folder creation is in flight.  A handler
\* entered reads store and nextId only, and a folder creation between its
\* two steps has changed neither, so these states have every table and
\* every next id that the states of Ready have.
Quiet == Ready /\ \A r \in Reqs : req[r] = IdleSlot

C2_ListRootExact ==
  \A U \in Users :
    LET reply == FilesReply(store, U, Query(U, JsNull))
    IN  /\ reply.status = 200
        /\ reply.rows = {n \in store : n.userId = U.s /\ n.parentId = NullId}
        /\ \A n \in reply.rows : n.parentId = NullId

\* A listing of the root returned a row while the caller also owns a row
\* inside a folder.
C2_Witness ==
  /\ resp.kind = "files"
  /\ resp.status = 200
  /\ resp.rows # {}
  /\ \A n \in resp.rows : n.parentId = NullId
  /\ \E m \in store : m.userId = resp.sess.s /\ m.parentId # NullId

(***************************************************************************)
(* C3: owner isolation, as the two unwinding conditions of                 *)
(* non-interference.  Output: whenever a handler can be entered, the       *)
(* response of the lister, of the folder creator's parent check and of the *)
(* upload recorder to caller U is the response the same request gets on    *)
(* the table restricted to the rows of U; and a response carries rows of   *)
(* the session's user only.  Step: a step that does not answer U changes   *)
(* neither the rows of U nor a folder creation of U in flight.  Together:  *)
(* two runs that differ in the requests of other callers give U the same   *)
(* responses, the generated ids apart.                                     *)
(***************************************************************************)
C3_OutputConsistent ==
  Ready =>
    \A U \in Users :
      /\ \A q \in ListQueries :
           FilesReply(store, U, q) = FilesReply(OwnView(store, U), U, q)
      /\ \A b \in FolderBodies :
           FolderGate(store, U, b) = FolderGate(OwnView(store, U), U, b)
      /\ \A b \in UploadBodies :
           UploadOutcome(store, nextId, U, b).resp
             = UploadOutcome(OwnView(store, U), nextId, U, b).resp

C3_ReturnsOwn ==
  /\ \A n \in resp.rows : n.userId = resp.sess.s
  /\ resp.inserted => resp.node.userId = resp.sess.s

C3_StepConsistent ==
  \A U \in Users :
    resp'.sess # U =>
      /\ OwnView(store', U) = OwnView(store, U)
      /\ \A r \in Reqs : req[r].userId = U => req'[r] = req[r]

C3_OwnerIsolation ==
  /\ [](C3_OutputConsistent /\ C3_ReturnsOwn)
  /\ [][C3_StepConsistent]_vars

\* A listing of the root returned rows of the caller and left out a root row
\* of the other owner.
C3_Witness ==
  /\ resp.kind = "files"
  /\ resp.rows # {}
  /\ \E m \in store : m.userId # resp.sess.s /\ m.parentId = NullId /\ m \notin resp.rows

(***************************************************************************)
(* C4: in every reachable state, every row whose parentId is not NULL has  *)
(* the id of a stored row with the same userId and isFolder = TRUE as its  *)
(* parentId.                                                               *)
(***************************************************************************)
C4_ParentIntegrity ==
  \A n \in store :
    n.parentId # NullId =>
      \E p \in store : p.id = n.parentId /\ p.userId = n.userId /\ p.isFolder

\* A folder was created inside a folder.
C4_Witness ==
  \E n \in store : n.parentId # NullId

\* The step leaves the table, the next id and the requests in flight alone.
Untouched == UNCHANGED <<store, nextId, req>>

(***************************************************************************)
(* C5: the upload recorder, the folder creator and the lister, run with a  *)
(* session on a body or query whose userId (any value, a missing one       *)
(* included) is not the session's user id, answer 401 without a select or  *)
(* an insert, whatever the other fields are and whatever the table holds;  *)
(* and every step that answers 401 after reading the body leaves the table *)
(* as it is.                                                               *)
(***************************************************************************)
C5_Mismatch ==
  Quiet =>
    \A U \in Users :
      /\ \A b \in UploadBodies :
           b.ok /\ b.userId # U =>
             UploadOutcome(store, nextId, U, b)
               = Outcome(ErrorReply("upload", U, 401, TRUE, FALSE), store)
      /\ \A b \in FolderBodies :
           b.ok /\ b.userId # U =>
             /\ FolderGate(store, U, b).slot = IdleSlot
             /\ FolderOutcome(store, nextId, U, b)
                  = Outcome(ErrorReply("folder", U, 401, TRUE, FALSE), store)
      /\ \A q \in ListQueries :
           q.userId # U =>
             FilesReply(store, U, q) = ErrorReply("files", U, 401, TRUE, FALSE)

C5_Frame ==
  resp'.status = 401 /\ resp'.bodyRead =>
    Untouched /\ ~resp'.queried /\ ~resp'.inserted

C5_MismatchIs401 == [](C5_Mismatch) /\ [][C5_Frame]_vars

\* A request was answered 401 after its body was read, while the other
\* caller exists and owns rows.
C5_Witness ==
  /\ resp.status = 401
  /\ resp.bodyRead
  /\ ~resp.queried
  /\ \E n \in store : n.userId # resp.sess.s

(***************************************************************************)
(* C6: each of the four handlers run without a session answers 401 before  *)
(* it reads the body or the query (an unreadable body included), without a *)
(* select or an insert, and the credential issuer gives no token; every    *)
(* such step leaves the table as it is; with a session the credential      *)
(* issuer answers 200 with the signing parameters and checks nothing else. *)
(***************************************************************************)
C6_NoSession ==
  Quiet =>
    /\ ImagekitAuthReply(JsNull)
         = ErrorReply("imagekit-auth", JsNull, 401, FALSE, FALSE)
    /\ ~ImagekitAuthReply(JsNull).token
    /\ \A q \in ListQueries :
         FilesReply(store, JsNull, q) = ErrorReply("files", JsNull, 401, FALSE, FALSE)
    /\ \A b \in UploadBodies :
         UploadOutcome(store, nextId, JsNull, b)
           = Outcome(ErrorReply("upload", JsNull, 401, FALSE, FALSE), store)
    /\ \A b \in FolderBodies :
         /\ FolderGate(store, JsNull, b).slot = IdleSlot
         /\ FolderOutcome(store, nextId, JsNull, b)
              = Outcome(ErrorReply("folder", JsNull, 401, FALSE, FALSE), store)
    /\ \A U \in Users :
         ImagekitAuthReply(U)
           = Response("imagekit-auth", U, 200, {}, NoNode, TRUE, FALSE, FALSE, FALSE)

C6_Frame ==
  /\ resp' # NoResp /\ resp'.sess = JsNull =>
       /\ resp'.status = 401
       /\ ~resp'.bodyRead /\ ~resp'.queried /\ ~resp'.inserted /\ ~resp'.token
       /\ Untouched
  /\ resp'.kind = "imagekit-auth" /\ resp'.sess # JsNull =>
       resp'.status = 200 /\ resp'.token /\ Untouched

C6_NoSessionIs401 == [](C6_NoSession) /\ [][C6_Frame]_vars

\* The credential issuer turned a caller without a session away.
C6_Witness ==
  /\ resp.kind = "imagekit-auth"
  /\ resp.sess = JsNull
  /\ resp.status = 401
  /\ ~resp.token
  /\ ~resp.bodyRead

(***************************************************************************)
(* C7: the folder creator run for a caller with a session, on a body with  *)
(* the caller's userId and a name that is missing, not a string, empty or  *)
(* whitespace only, answers 400, whatever the table holds; and every step  *)
(* in which the folder creator answers 400 leaves the table as it is.      *)
(***************************************************************************)
C7_BlankName ==
  Quiet =>
    \A U \in Users : \A b \in OwnFolderBodies(U) :
      BlankName(b.name) =>
        /\ FolderGate(store, U, b).slot = IdleSlot
        /\ FolderOutcome(store, nextId, U, b)
             = Outcome(ErrorReply("folder", U, 400, TRUE, FALSE), store)

C7_Frame ==
  resp'.kind = "folder" /\ resp'.status = 400 => Untouched /\ ~resp'.inserted

C7_BlankNameIs400 == [](C7_BlankName) /\ [][C7_Frame]_vars

\* The folder creator answered 400.
C7_Witness ==
  /\ resp.kind = "folder"
  /\ resp.status = 400
  /\ resp.sess \in Users

\* The row a folder creation of caller U with the name nm under parent p
\* (NullId: none) is to return.
IsNewFolder(n, U, nm, p) ==
  /\ n.userId = U.s
  /\ n.parentId = p
  /\ n.isFolder = TRUE
  /\ n.size = 0
  /\ n.type = <<"folder">>
  /\ n.fileUrl = <<>>
  /\ n.isStarred = FALSE
  /\ n.isTrash = FALSE
  /\ IsTrimOf(n.name, nm.s)

\* out is a success that adds exactly the returned row to the table st.
AddsReturnedRow(out, st) ==
  /\ out.resp.status = 200
  /\ out.resp.inserted
  /\ out.resp.node \notin st
  /\ out.store = st \cup {out.resp.node}
  /\ Cardinality(out.store) = Cardinality(st) + 1

(***************************************************************************)
(* C8: the folder creator run for caller U with a session, on a body with  *)
(* U's userId, a name that is not blank and no parentId (absent or null),  *)
(* passes its checks without a select, and its insert, run then or after   *)
(* steps of other requests, answers 200, adds exactly one row and returns  *)
(* it, with userId = U, parentId NULL, isFolder, size 0, type "folder",    *)
(* an empty fileUrl, isStarred and isTrash FALSE and the trimmed name.     *)
(***************************************************************************)
C8_RootFolder ==
  /\ Ready =>
       \A U \in Users : \A b \in OwnFolderBodies(U) :
         ~BlankName(b.name) /\ b.parentId \in {Undefined, JsNull} =>
           LET gate == FolderGate(store, U, b)
               out == FolderOutcome(store, nextId, U, b)
           IN  /\ gate.resp = NoResp
               /\ gate.slot.pc = "insert"
               /\ ~gate.slot.queried
               /\ AddsReturnedRow(out, store)
               /\ IsNewFolder(out.resp.node, U, b.name, NullId)
  /\ \A r \in Reqs :
       req[r].pc = "insert" /\ req[r].parentId = JsNull =>
         LET out == FolderInsertOutcome(store, nextId, req[r])
         IN  /\ AddsReturnedRow(out, store)
             /\ IsNewFolder(out.resp.node, req[r].userId, req[r].name, NullId)

C8_Frame ==
  resp'.kind = "folder" /\ resp'.status = 200 =>
    /\ resp'.node \notin store
    /\ store' = store \cup {resp'.node}
    /\ resp'.node.isFolder
    /\ resp'.node.userId = resp'.sess.s

C8_RootFolderCreated == [](C8_RootFolder) /\ [][C8_Frame]_vars

\* A folder creation without parent answered 200 with the row it stored.
C8_Witness ==
  /\ resp.kind = "folder"
  /\ resp.status = 200
  /\ ~resp.queried
  /\ resp.node.parentId = NullId
  /\ resp.node \in store

(***************************************************************************)
(* C9: the folder creator run for caller U with a session, on a body with  *)
(* U's userId, a name that is not blank and a parentId that is an id (a    *)
(* uuid): when no row has that id, or the row with that id belongs to      *)
(* another caller, or it is not a folder, the answer is 404 (not 401) and  *)
(* the table is as it was; otherwise the parent check passes and the       *)
(* insert, run then or after steps of other requests, finds the parent     *)
(* still there and answers 200 with a folder under it.  Every step that    *)
(* answers 404 leaves the table as it is.                                  *)
(***************************************************************************)
C9_Parent ==
  /\ Ready =>
       \A U \in Users : \A b \in OwnFolderBodies(U) :
         ~BlankName(b.name) /\ b.parentId \in ParentUuids =>
           LET gate == FolderGate(store, U, b)
               out == FolderOutcome(store, nextId, U, b)
               found == \E n \in store :
                          n.id = b.parentId.n /\ n.userId = U.s /\ n.isFolder
           IN  /\ ~found =>
                    /\ gate.slot = IdleSlot
                    /\ out = Outcome(ErrorReply("folder", U, 404, TRUE, TRUE), store)
               /\ found =>
                    /\ gate.resp = NoResp
                    /\ gate.slot.pc = "insert"
                    /\ AddsReturnedRow(out, store)
                    /\ IsNewFolder(out.resp.node, U, b.name, b.parentId.n)
  /\ \A r \in Reqs :
       req[r].pc = "insert" /\ req[r].parentId \in ParentUuids =>
         LET out == FolderInsertOutcome(store, nextId, req[r])
         IN  /\ \E n \in store :
                  /\ n.id = req[r].parentId.n
                  /\ n.userId = req[r].userId.s
                  /\ n.isFolder
             /\ AddsReturnedRow(out, store)
             /\ IsNewFolder(out.resp.node, req[r].userId, req[r].name,
                            req[r].parentId.n)

C9_Frame ==
  resp'.status = 404 =>
    resp'.kind = "folder" /\ resp'.queried /\ ~resp'.inserted /\ Untouched

C10_NoUrl ==
  Quiet =>
    \A U \in Users : \A b \in OwnUploadBodies(U) :
      (\/ ~b.imagekit.present
       \/ b.imagekit.url = Undefined
       \/ b.imagekit.url = Str(<<>>)) =>
        UploadOutcome(store, nextId, U, b)
          = Outcome(ErrorReply("upload", U, 400, TRUE, FALSE), store)

C10_Frame ==
  resp'.kind = "upload" /\ resp'.status = 400 => Untouched /\ ~resp'.inserted

C10_NoUrlIs400 == [](C10_NoUrl) /\ [][C10_Frame]_vars

\* The upload recorder answered 400.
C10_Witness ==
  /\ resp.kind = "upload"
  /\ resp.status = 400
  /\ resp.sess \in Users

\* The row an upload of caller U with the ImageKit response ik is to return.
IsNewFile(n, U, ik) ==
  /\ n.userId = U.s
  /\ n.parentId = NullId
  /\ n.isFolder = FALSE
  /\ n.isStarred = FALSE
  /\ n.isTrash = FALSE
  /\ n.fileUrl = ik.url.s

(***************************************************************************)
(* C11: the upload recorder run for caller U with a session, on a body     *)
(* with U's userId and an imagekit object with a url, whatever else the    *)
(* body holds (a parentId field included), answers 200, adds exactly one   *)
(* row and returns it, with userId = U, isFolder, isStarred and isTrash    *)
(* FALSE, fileUrl the imagekit url and parentId NULL; and every step in    *)
(* which the upload recorder answers 200 adds the returned row, a root     *)
(* file of the session's user, and nothing else.                           *)
(***************************************************************************)
C11_Upload ==
  Ready =>
    \A U \in Users : \A b \in OwnUploadBodies(U) :
      b.imagekit.present /\ Truthy(b.imagekit.url) =>
        LET out == UploadOutcome(store, nextId, U, b)
        IN  /\ AddsReturnedRow(out, store)
            /\ out.resp.node.id = nextId
            /\ IsNewFile(out.resp.node, U, b.imagekit)

C11_Frame ==
  resp'.kind = "upload" /\ resp'.status = 200 =>
    /\ resp'.node \notin store
    /\ store' = store \cup {resp'.node}
    /\ resp'.node.userId = resp'.sess.s
    /\ resp'.node.parentId = NullId
    /\ ~resp'.node.isFolder /\ ~resp'.node.isStarred /\ ~resp'.node.isTrash
    /\ resp'.node.fileUrl # <<>>
    /\ UNCHANGED req

C11_UploadRecorded == [](C11_Upload) /\ [][C11_Frame]_vars

\* An upload was answered 200 with the row it stored at the root, while the
\* caller owns the folder with the first id.
C11_Witness ==
  /\ resp.kind = "upload"
  /\ resp.status = 200
  /\ resp.node \in store
  /\ resp.node.parentId = NullId
  /\ \E n \in store : n.id = 1 /\ n.isFolder /\ n.userId = resp.sess.s

\* F is a root folder of caller U and f a file U recorded after creating F
\* (ids are generated in the order of the inserts).
FolderThenFile(st, U, F, f) ==
  /\ F \in st /\ f \in st
  /\ F.userId = U.s /\ f.userId = U.s
  /\ F.isFolder /\ F.parentId = NullId
  /\ ~f.isFolder
  /\ F.id < f.id

(***************************************************************************)
(* C12: in every state in which caller U has created a root folder F and   *)
(* then recorded an uploaded file f, whatever other requests ran before,   *)
(* between and after the two, the listing of the root for U answers 200    *)
(* with both F and f among its rows, and the listing for U with parentId   *)
(* the id of F answers 200 with neither F nor f among its rows.            *)
(***************************************************************************)
C12_FolderThenFileListed ==
  \A U \in Users : \A F \in store : \A f \in store :
    FolderThenFile(store, U, F, f) =>
      LET root == FilesReply(store, U, Query(U, JsNull))
          under == FilesReply(store, U, Query(U, Uuid(F.id)))
      IN  /\ root.status = 200
          /\ {F, f} \subseteq root.rows
          /\ under.status = 200
          /\ under.rows \cap {F, f} = {}

\* The listing of the root answered a caller with the root folder the
\* caller created first and the file the caller recorded second.
C12_Witness ==
  /\ resp.kind = "files"
  /\ resp.status = 200
  /\ \E F \in resp.rows : \E f \in resp.rows :
       /\ FolderThenFile(store, resp.sess, F, f)
       /\ F.id = 1 /\ f.id = 2

\* Requests r1 and r2 are folder creations of one caller under one parent,
\* both past the parent check and before the insert.
BothChecked(r1, r2) ==
  /\ r1 # r2
  /\ req[r1].pc = "insert" /\ req[r2].pc = "insert"
  /\ req[r1].userId = req[r2].userId
  /\ req[r1].parentId = req[r2].parentId
  /\ req[r1].parentId \in ParentUuids

(***************************************************************************)
(* C13: when two folder creations of one caller under one existing parent  *)
(* folder have both passed the parent check, the two inserts, in either    *)
(* order, both answer 200 and leave two rows with different ids under the  *)
(* parent, also when the two names are the same; every insert step of a    *)
(* folder creation that names a parent answers 200 whatever ran between    *)
(* its check and its insert; and no two rows of the table share an id.     *)
(***************************************************************************)
C13_Siblings ==
  /\ \A n \in store : \A m \in store : n.id = m.id => n = m
  /\ Ready =>
       \A r1 \in Reqs : \A r2 \in Reqs :
         BothChecked(r1, r2) =>
           LET first == FolderInsertOutcome(store, nextId, req[r1])
               second == FolderInsertOutcome(first.store, nextId + 1, req[r2])
           IN  /\ first.resp.status = 200
               /\ second.resp.status = 200
               /\ first.resp.node.id # second.resp.node.id
               /\ first.resp.node.parentId = req[r1].parentId.n
               /\ second.resp.node.parentId = req[r1].parentId.n
               /\ {first.resp.node, second.resp.node} \subseteq second.store
               /\ Cardinality(second.store) = Cardinality(store) + 2

C13_Frame ==
  \A r \in Reqs :
    req[r].pc = "insert" /\ req'[r].pc = "idle" /\ req[r].parentId \in ParentUuids =>
      /\ resp'.status = 200
      /\ resp'.node.parentId = req[r].parentId.n
      /\ resp'.node \notin store
      /\ store' = store \cup {resp'.node}
      /\ \A q \in Reqs \ {r} : req'[q] = req[q]

C13_SiblingsBothSucceed == [](C13_Siblings) /\ [][C13_Frame]_vars

\* One of two folder creations with the same name under the folder that was
\* there has inserted its row; the other, past its parent check, has not yet.
C13_Witness ==
  /\ resp.kind = "folder"
  /\ resp.status = 200
  /\ resp.node.parentId = SeedId
  /\ resp.node \in store
  /\ \E r \in Reqs :
       /\ req[r].pc = "insert"
       /\ req[r].parentId = Uuid(SeedId)
       /\ req[r].userId = resp.sess
       /\ IsTrimOf(resp.node.name, req[r].name.s)

(***************************************************************************)
(* C14: in each of the four handlers, an exception at any call the run     *)
(* gets to (auth(), request.json(), a select, an insert, the ImageKit SDK  *)
(* call) is answered 500 with the table as it was before the request, and  *)
(* the request ends there: nothing is selected or inserted after the       *)
(* exception and a folder creation does not go on to its insert.  Every    *)
(* step that answers 500 leaves the table and the next id unchanged and    *)
(* leaves no request in flight that was not in flight before.              *)
(***************************************************************************)
C14_Thrown ==
  /\ Quiet =>
       \A sess \in Sessions :
         /\ \A fault \in ImagekitAuthFaults :
              ImagekitAuthThrows(sess, fault) =>
                ImagekitAuthCatch(sess, fault).status = 500
         /\ \A fault \in FilesFaults :
              \A q \in FaultInputs(sess, fault, ListQueries) :
                FilesThrows(store, sess, q, fault) =>
                  LET r == FilesCatch(store, sess, q, fault)
                  IN  r.status = 500 /\ r.rows = {}
         /\ \A fault \in UploadFaults :
              \A b \in FaultInputs(sess, fault, UploadBodies) :
                UploadThrows(sess, b, fault) \/ ~b.ok =>
                  LET out == UploadCatch(store, nextId, sess, b, fault)
                  IN  /\ out.resp.status = 500
                      /\ ~out.resp.inserted
                      /\ out.store = store
         /\ \A fault \in FolderGateFaults :
              \A b \in FaultInputs(sess, fault, FolderBodies) :
                FolderGateThrows(store, sess, b, fault) \/ ~b.ok =>
                  LET gate == FolderGateCatch(store, sess, b, fault)
                  IN  gate.resp.status = 500 /\ gate.slot = IdleSlot
  /\ Ready =>
       \A r \in Reqs : \A fault \in FolderInsertFaults :
         req[r].pc = "insert" /\ FolderInsertThrows(req[r], fault) =>
           LET out == FolderInsertCatch(store, nextId, req[r], fault)
           IN  /\ out.resp.status = 500
               /\ ~out.resp.inserted
               /\ out.store = store

C14_Frame ==
  resp'.status = 500 =>
    /\ store' = store
    /\ nextId' = nextId
    /\ ~resp'.inserted
    /\ resp'.rows = {} /\ resp'.node = NoNode /\ ~resp'.token
    /\ \A r \in Reqs : req'[r] = req[r] \/ req'[r] = IdleSlot

C14_ExceptionIs500 == [](C14_Thrown) /\ [][C14_Frame]_vars

\* The insert of a folder creation that named a parent threw: the answer is
\* 500, the parent is in the table and no row is under it.
C14_Witness ==
  /\ resp.kind = "folder"
  /\ resp.status = 500
  /\ resp.queried
  /\ \A r \in Reqs : req[r] = IdleSlot
  /\ store # {}
  /\ \A n \in store : n.parentId = NullId /\ n.isFolder

\* The kinds of the responses of the four handlers.
HandlerKinds == {"imagekit-auth", "files", "upload", "folder"}

(***************************************************************************)
(* C15: on every request the middleware runs on, a caller with a session   *)
(* who requests a pathname that begins with /sign-in or /sign-up is        *)
(* redirected to /dashboard, and a caller without a session who requests a *)
(* pathname that is not public is stopped by auth.protect(); the pathnames *)
(* of the four handlers are not public and the middleware runs on them, so *)
(* no handler is entered, and no folder creation is in flight, without a   *)
(* session; only a caller with a session is redirected to /dashboard; and  *)
(* a request for "/" is let through, with or without a session.            *)
(***************************************************************************)
C15_Gate ==
  /\ Quiet =>
       /\ \A U \in Users : \A path \in Paths :
            matcher(path) /\ Len(path) >= 2 /\ path[2] \in {"sign-in", "sign-up"} =>
              Gate(U, path) = "redirect"
       /\ \A path \in Paths :
            matcher(path) /\ ~isPublicRoute(path) => Gate(JsNull, path) = "protect"
       /\ \A path \in ApiPaths :
            /\ matcher(path) /\ ~isPublicRoute(path)
            /\ \A U \in Users : Gate(U, path) = "next"
       /\ \A sess \in Sessions : Gate(sess, RootPath) = "next"
  /\ resp.kind \in HandlerKinds => Truthy(resp.sess)
  /\ \A r \in Reqs : req[r].pc = "insert" => Truthy(req[r].userId)

C15_Frame ==
  /\ resp'.kind = "redirect" => Truthy(resp'.sess) /\ Untouched
  /\ resp'.kind = "protect" => resp'.sess = JsNull /\ Untouched
  /\ resp'.sess = JsNull => resp'.kind \in {"none", "protect", "page"}

C16_NameNotBlank == \A n \in store : Trim(n.name) # <<>>

(***************************************************************************)
(* C17: every row of the table has a size that is a non-negative integer,  *)
(* and every row with isFolder has size 0.                                 *)
(***************************************************************************)
C17_SizeNonNegative ==
  \A n \in store :
    /\ n.size \in Nat
    /\ n.isFolder => n.size = 0

(***************************************************************************)
(* C18: a row of the table has type "folder" exactly when it has isFolder. *)
(***************************************************************************)
C18_FolderTypeIffIsFolder ==
  \A n \in store : (n.type = <<"folder">>) <=> n.isFolder

(***************************************************************************)
(* C19: every row of the table without isFolder has a fileUrl that is not  *)
(* empty, and every row with isFolder has an empty fileUrl.                *)
(***************************************************************************)
C19_FileUrl ==
  \A n \in store :
    /\ ~n.isFolder => n.fileUrl # <<>>
    /\ n.isFolder => n.fileUrl = <<>>

\* The table holds a file and a folder.
C19_Witness ==
  /\ \E n \in store : ~n.isFolder /\ n.fileUrl # <<>>
  /\ \E n \in store : n.isFolder /\ n.fileUrl = <<>>

(***************************************************************************)
(* C20: no step changes or removes a row of the table: every row of the    *)
(* table before a step is in the table after it, with every field the      *)
(* same; a step adds at most one row, the one its response returns, and    *)
(* the userId of that row is the session user id of its request; no two    *)
(* rows share an id, so the row with a given id has the same userId in     *)
(* every later state.                                                      *)
(***************************************************************************)
C20_Rows ==
  /\ \A n \in store : \A m \in store : n.id = m.id => n.userId = m.userId /\ n = m
  /\ \A n \in store : Str(n.userId) \in Users

C20_Frame ==
  /\ store \subseteq store'
  /\ \A n \in store' \ store :
       /\ resp'.inserted
       /\ n = resp'.node
       /\ Truthy(resp'.sess)
       /\ n.userId = resp'.sess.s
  /\ \A n \in store : \A m \in store' : m.id = n.id => m.userId = n.userId

C20_AppendOnly == [](C20_Rows) /\ [][C20_Frame]_vars

\* A row was added to a table that holds a row of the other owner.
C20_Witness ==
  /\ resp.inserted
  /\ resp.node \in store
  /\ \E n \in store : n.userId # resp.node.userId /\ n.id < resp.node.id

\* The statuses of the responses of the handlers.
Statuses == {200, 400, 401, 404, 500}

\* Request r has passed its checks in this step and not answered yet.
Enters(r) == req[r].pc = "idle" /\ req'[r].pc = "insert"

\* Request r ends in this step.
Ends(r) == req[r].pc = "insert" /\ req'[r].pc = "idle"

(***************************************************************************)
(* C21: every request is single-shot.  A step of a handler either answers  *)
(* (one response, with status 200, 400, 401, 404 or 500) or leaves one     *)
(* folder creation in flight, never both and never neither; the step that  *)
(* ends a folder creation answers; a response is sent before any other     *)
(* step is taken; a step adds at most one row, only when it answers 200    *)
(* and ends its request; and, when awaited calls return, a folder creation *)
(* in flight ends and every response is sent.                              *)
(***************************************************************************)
C21_Step ==
  /\ resp # NoResp => resp' = NoResp /\ Untouched
  /\ resp = NoResp =>
       /\ resp' # NoResp => resp'.kind \in HandlerKinds /\ resp'.status \in Statuses
       /\ resp' # NoResp => \A r \in Reqs : ~Enters(r)
       /\ resp' = NoResp => Cardinality({r \in Reqs : Enters(r)}) = 1
       /\ \A r \in Reqs : Ends(r) => resp' # NoResp /\ resp'.kind = "folder"
       /\ Cardinality(store' \ store) <= 1
       /\ store \subseteq store'
       /\ store' # store <=> resp'.inserted
       /\ resp'.inserted =>
            /\ resp'.status = 200
            /\ nextId' = nextId + 1
            /\ resp'.kind = "folder" => \E r \in Reqs : Ends(r)
            /\ \A r \in Reqs : ~Enters(r)

\* No folder creation stays in flight for ever and no response stays unsent.
C21_Ends ==
  /\ \A r \in Reqs : []<>(req[r].pc = "idle")
  /\ []<>(resp = NoResp)

C21_SingleShot == [][C21_Step]_vars /\ C21_Ends

\* A folder creation ended with 200 and its row while the other is in
\* flight.
C21_Witness ==
  /\ resp.kind = "folder"
  /\ resp.status = 200
  /\ resp.inserted
  /\ resp.node \in store
  /\ \E r \in Reqs : req[r].pc = "insert"

\* Following parentId from the id reaches NULL in at most k steps over the
\* rows of st.
RECURSIVE RootWithin(_, _, _)
RootWithin(st, id, k) ==
  \/ id = NullId
  \/ /\ k > 0
     /\ \E m \in st : m.id = id /\ RootWithin(st, m.parentId, k - 1)

\* The row with the id a is reached from the id by following parentId at
\* most k times.
RECURSIVE IsAncestor(_, _, _, _)
IsAncestor(st, a, id, k) ==
  /\ id # NullId
  /\ k > 0
  /\ \/ id = a
     \/ \E m \in st : m.id = id /\ IsAncestor(st, a, m.parentId, k - 1)

(***************************************************************************)
(* C22: the parent relation over the rows of the table is acyclic:         *)
(* following parentId from any row reaches a row with parentId NULL in at  *)
(* most as many steps as there are rows, and no row is its own ancestor.   *)
(***************************************************************************)
C22_Acyclic ==
  \A n \in store :
    /\ RootWithin(store, n.parentId, Cardinality(store))
    /\ ~IsAncestor(store, n.id, n.parentId, Cardinality(store))

\* A folder inside a folder inside the folder that was there.
C22_Witness ==
  \E n \in store : \E m \in store :
    /\ n.parentId = m.id
    /\ m.parentId = SeedId
    /\ SeedFolder \in store

\* The parent select of a run of the folder creator up to its parent check
\* was run.
GateQueried(gate) == gate.resp.queried \/ gate.slot.queried

(***************************************************************************)
(* C23: the folder creator applies its checks in the order session,        *)
(* identity, name, parent.  Without a session the answer is 401 whatever   *)
(* the body is; with a session and another userId in the body it is 401    *)
(* also when the name is blank or the parent does not exist; with the      *)
(* caller's userId and a blank name it is 400 also when the parent does    *)
(* not exist; and the parent select is run only in a request with a        *)
(* session, the caller's userId and a name that is not blank.              *)
(***************************************************************************)
C23_Order ==
  Quiet =>
    \A sess \in Sessions : \A b \in FolderBodies :
      LET gate == FolderGate(store, sess, b)
          missing == b.parentId \in ParentUuids
                     /\ \A n \in store : n.id # b.parentId.n
      IN  /\ sess = JsNull =>
               gate.resp.status = 401 /\ ~gate.resp.bodyRead /\ ~GateQueried(gate)
          /\ sess # JsNull /\ b.ok /\ b.userId # sess =>
               gate.resp.status = 401 /\ gate.resp.bodyRead /\ ~GateQueried(gate)
          /\ sess # JsNull /\ b.ok /\ b.userId = sess /\ BlankName(b.name) =>
               gate.resp.status = 400 /\ ~GateQueried(gate)
          /\ sess # JsNull /\ b.ok /\ b.userId = sess /\ ~BlankName(b.name)
               /\ missing =>
               gate.resp.status = 404 /\ GateQueried(gate)
          /\ GateQueried(gate) =>
               sess # JsNull /\ b.ok /\ b.userId = sess /\ ~BlankName(b.name)
          /\ gate.resp.status \in {400, 401, 404} => gate.slot = IdleSlot

C23_Frame ==
  resp'.kind = "folder" =>
    /\ resp'.queried => Truthy(resp'.sess) /\ resp'.bodyRead
    /\ resp'.status \in {400, 401} => ~resp'.queried /\ Untouched

C23_CheckOrder == [](C23_Order) /\ [][C23_Frame]_vars

\* The folder creator answered 400 without a select, on a table in which no
\* id that a body can name exists.
C23_Witness ==
  /\ resp.kind = "folder"
  /\ resp.status = 400
  /\ ~resp.queried
  /\ store = {}

(***************************************************************************)
(* C24: the list handler and the credential issuer never change the table: *)
(* every step in which one of them answers, with 200, 401 or 500 (an       *)
(* exception at any of their calls included), leaves the table, the next   *)
(* id and the requests in flight as they were; and the listing for a       *)
(* caller and a parent id (a uuid) under which the caller has no row, also *)
(* when no row or only a row of another caller has that id or that parent, *)
(* answers 200 with the empty list.                                        *)
(***************************************************************************)
C24_EmptyListing ==
  Ready =>
    \A U \in Users : \A P \in ParentUuids :
      (\A n \in store : ~(n.userId = U.s /\ n.parentId = P.n)) =>
        FilesReply(store, U, Query(U, P))
          = Response("files", U, 200, {}, NoNode, FALSE, TRUE, TRUE, FALSE)

C24_Frame ==
  resp'.kind \in {"files", "imagekit-auth"} =>
    /\ store' = store
    /\ Untouched
    /\ resp'.status \in {200, 401, 500}
    /\ ~resp'.inserted

Selectors == {"handleFileChange", "handleDrop"}

(***************************************************************************)
(* C25: upload form.  In every state the selected file is absent or has at *)
(* most 5 * 1024 * 1024 bytes.  Selecting or dropping a larger file sets   *)
(* the error and leaves the selected file as it was; selecting or dropping *)
(* any other file makes it the selected file and clears the error.         *)
(* handleUpload run while no file is selected sends no request and changes *)
(* nothing, and every upload request carries the selected file.            *)
(***************************************************************************)
C25_FileWithinLimit ==
  form.file.present => form.file.size <= 5 * 1024 * 1024

C25_Step ==
  /\ \A name \in Selectors : \A f \in Files :
       SelectFile(name, f) =>
         IF f.size > 5 * 1024 * 1024
         THEN form'.file = form.file /\ form'.error = SizeError
         ELSE form'.file = f /\ form'.error = JsNull
  /\ wire'.last = "handleUpload" /\ ~form.file.present =>
       /\ wire'.sent = NoRequest
       /\ wire'.uploads = wire.uploads
       /\ form' = form
  /\ wire'.sent.url = <<"/api/files/upload">> /\ wire' # wire =>
       /\ form.file.present
       /\ wire'.sent.file = form.file
       /\ wire'.sent.file.size <= 5 * 1024 * 1024

C25_SelectedFileSize == [](C25_FileWithinLimit) /\ [][C25_Step]_vars

\* A file larger than the limit was dropped on the form while the file of
\* exactly the limit was selected: the error is set and the file stayed.
C25_Witness ==
  /\ wire.last = "handleDrop"
  /\ form.error = SizeError
  /\ form.file = File(MaxFileSize)

(***************************************************************************)
(* C26: upload form.  uploading is TRUE only while a request of            *)
(* handleUpload is under way: it becomes TRUE only in the step that sends  *)
(* the request, and it is FALSE after every step in which a request ends.  *)
(* The step after a request that succeeded clears the selected file and    *)
(* the error and calls onUploadSuccess once; the step after a request that *)
(* failed leaves the selected file as it is, sets the error and calls      *)
(* nothing, and the upload button, disabled while the error is set, is     *)
(* enabled again only by a step that clears the file or selects a file     *)
(* within the limit.                                                       *)
(***************************************************************************)
C26_UploadingUnderWay == form.uploading => wire.uploads > 0

C26_Step ==
  /\ form'.uploading /\ ~form.uploading =>
       wire'.uploads = wire.uploads + 1 /\ wire'.sent = UploadRequest
  /\ wire'.uploads > wire.uploads => form'.uploading /\ wire'.calls = 0
  /\ wire'.uploads < wire.uploads =>
       /\ ~form'.uploading
       /\ wire'.uploads = wire.uploads - 1
       /\ wire'.last \in {"uploadResolved", "uploadRejected"}
       /\ wire'.sent = NoRequest
       /\ wire'.last = "uploadResolved" =>
            /\ form'.file = NoFile
            /\ form'.error = JsNull
            /\ wire'.calls = 1
       /\ wire'.last = "uploadRejected" =>
            /\ form'.file = form.file
            /\ form'.error = UploadError
            /\ UploadDisabled'
            /\ wire'.calls = 0
  /\ UploadDisabled /\ ~UploadDisabled' =>
       \/ form'.file = NoFile
       \/ /\ wire'.last \in Selectors
          /\ form'.file.present
          /\ form'.file.size <= MaxFileSize

C26_UploadingFlag == [](C26_UploadingUnderWay) /\ [][C26_Step]_vars

\* A request of handleUpload failed: the file is still selected, the error
\* is set, uploading is FALSE and the button is disabled.
C26_Witness ==
  /\ wire.last = "uploadRejected"
  /\ wire.uploads = 0
  /\ form.file.present
  /\ form.error = UploadError
  /\ ~form.uploading
  /\ UploadDisabled

(***************************************************************************)
(* C27: folder form.  handleCreateFolder run on a folder name that is      *)
(* empty after trimming sends no request and changes nothing; run on any   *)
(* other name it sends one request to /api/folders/create with the trimmed *)
(* name, the form's userId and currentFolder as parentId, and sets         *)
(* creatingFolder.  creatingFolder is TRUE only while such a request is    *)
(* under way and FALSE after every step in which one ends.  The step after *)
(* a request that succeeded resets the name to empty, closes the modal and *)
(* calls onUploadSuccess once; the step after a request that failed leaves *)
(* the name and the modal as they were and calls nothing.                  *)
(***************************************************************************)
C27_CreatingUnderWay == form.creatingFolder => wire.creates > 0

C27_Step ==
  /\ handleCreateFolder =>
       IF BlankName(Str(form.folderName))
       THEN /\ wire'.sent = NoRequest
            /\ wire'.creates = wire.creates
            /\ form' = form
       ELSE /\ wire'.creates = wire.creates + 1
            /\ wire'.sent.url = <<"/api/folders/create">>
            /\ IsTrimOf(wire'.sent.name.s, form.folderName)
            /\ wire'.sent.name.s # <<>>
            /\ wire'.sent.userId = form.userId
            /\ wire'.sent.parentId = form.currentFolder
            /\ form'.creatingFolder
            /\ form'.folderName = form.folderName
  /\ wire'.creates > wire.creates => wire'.last = "handleCreateFolder"
  /\ form'.creatingFolder /\ ~form.creatingFolder =>
       wire'.creates = wire.creates + 1
  /\ wire'.creates < wire.creates =>
       /\ ~form'.creatingFolder
       /\ wire'.creates = wire.creates - 1
       /\ wire'.last \in {"createResolved", "createRejected"}
       /\ wire'.sent = NoRequest
       /\ wire'.last = "createResolved" =>
            /\ form'.folderName = <<>>
            /\ ~form'.folderModalOpen
            /\ wire'.calls = 1
       /\ wire'.last = "createRejected" =>
            /\ form'.folderName = form.folderName
            /\ form'.folderModalOpen = form.folderModalOpen
            /\ wire'.calls = 0

C27_FolderForm == [](C27_CreatingUnderWay) /\ [][C27_Step]_vars

\* handleCreateFolder sent the name typed with a space before and after it,
\* trimmed, with the folder the form is in as parent.
C27_Witness ==
  /\ wire.last = "handleCreateFolder"
  /\ form.folderName = <<" ", "a", " ">>
  /\ wire.sent.name = Str(<<"a">>)
  /\ wire.sent.parentId = Uuid(1)
  /\ wire.sent.userId = form.userId
  /\ form.creatingFolder

====
